---- MODULE Spec2Model ----
(***************************************************************************)
(* A model of sloplint: the regular expressions of src/rules/comments.ts   *)
(* and of the language table, the comment and error-handling rules, the    *)
(* two passes of scanSource, and the run of main() in src/cli.ts.          *)
(*                                                                         *)
(* Strings are TLA+ strings.  A position in a string is the number of      *)
(* characters before it (0 .. Len(s)), as JavaScript's lastIndex is.       *)
(***************************************************************************)
EXTENDS Integers, Sequences, FiniteSets, TLC

VARIABLES
    pc,             \* where main() is: "start", "loop", "exited"; in the test
                    \* harness "test" before the call of scan and "tested" after it
    args,           \* process.argv.slice(2); in the test harness the arguments of
                    \* scan: <<langKey, the tree of code>>
    files,          \* the list collectFiles returned
    cursor,         \* how many entries of files the for loop of main() has consumed
    allDiagnostics, \* main()'s accumulated diagnostics
    stdout,         \* the diagnostics handed to formatDiagnostics and printed, or <<>>
    exitCode,       \* the process's exit code, -1 while it runs
    uncaught,       \* TRUE when the process died of an uncaught exception
    lastIndex,      \* the lastIndex property of every RegExp object of the program
    calls           \* history: every scanSource call made, with its arguments and result

vars == <<pc, args, files, cursor, allDiagnostics, stdout, exitCode, uncaught, lastIndex, calls>>

(***************************************************************************)
(* Bounds of the model: the arguments of a command line, and the top-level *)
(* items of a generated source file.                                       *)
(***************************************************************************)
MaxArgs == 2
MaxItems == 2

(***************************************************************************)
(* Characters and strings.                                                 *)
(***************************************************************************)
UpperLetters == "ABCDEFGHIJKLMNOPQRSTUVWXYZ"
LowerLetters == "abcdefghijklmnopqrstuvwxyz"
DigitChars == "0123456789"

Ch(s, i) == SubSeq(s, i, i)

CharsOf(s) == {Ch(s, i) : i \in 1..Len(s)}

UpperSet == CharsOf(UpperLetters)
LowerSet == CharsOf(LowerLetters)
DigitSet == CharsOf(DigitChars)

\* \s of a JavaScript regular expression, and the characters String.trim removes
SpaceSet == {" ", "\t", "\n", "\r", "\f"}

\* \w of a JavaScript regular expression
WordSet == UpperSet \cup LowerSet \cup DigitSet \cup {"_"}

LowerTable ==
    [A |-> "a", B |-> "b", C |-> "c", D |-> "d", E |-> "e", F |-> "f", G |->
     "g", H |-> "h", I |-> "i", J |-> "j", K |-> "k", L |-> "l", M |-> "m", N
     |-> "n", O |-> "o", P |-> "p", Q |-> "q", R |-> "r", S |-> "s", T |-> "t",
     U |-> "u", V |-> "v", W |-> "w", X |-> "x", Y |-> "y", Z |-> "z"]

LowerChar(c) == IF c \in UpperSet THEN LowerTable[c] ELSE c

RECURSIVE ToLowerRange(_, _, _)
ToLowerRange(s, lo, hi) ==
    IF lo > hi
    THEN ""
    ELSE IF lo = hi
         THEN LowerChar(Ch(s, lo))
         ELSE ToLowerRange(s, lo, (lo + hi) \div 2)
              \o ToLowerRange(s, (lo + hi) \div 2 + 1, hi)

\* the case folding a regular expression with the i flag compares under
ToLower(s) == ToLowerRange(s, 1, Len(s))

RECURSIVE TrimStart(_)
TrimStart(s) ==
    IF Len(s) > 0 /\ Ch(s, 1) \in SpaceSet THEN TrimStart(SubSeq(s, 2, Len(s))) ELSE s

RECURSIVE TrimEnd(_)
TrimEnd(s) ==
    IF Len(s) > 0 /\ Ch(s, Len(s)) \in SpaceSet
    THEN TrimEnd(SubSeq(s, 1, Len(s) - 1))
    ELSE s

\* String.prototype.trim
Trim(s) == TrimEnd(TrimStart(s))

RECURSIVE FirstLineFrom(_, _)
FirstLineFrom(s, i) ==
    IF i > Len(s) \/ Ch(s, i) = "\n" THEN SubSeq(s, 1, i - 1) ELSE FirstLineFrom(s, i + 1)

\* s.split("\n")[0]
FirstLine(s) == FirstLineFrom(s, 1)

(***************************************************************************)
(* Regular expressions: a syntax tree per pattern and a backtracking       *)
(* matcher.  Ends(re, t, p) is the sequence of positions at which a match  *)
(* of re that starts at position p of t can end, in the order in which a   *)
(* backtracking matcher tries them (alternatives left to right, greedy     *)
(* repetitions longest first), so its head is where the match ends.        *)
(***************************************************************************)
Lit(s) == [t |-> "lit", s |-> s]
Cls(chars, min, max) == [t |-> "cls", chars |-> chars, min |-> min, max |-> max]
Alt(items) == [t |-> "alt", items |-> items]
Cat(items) == [t |-> "cat", items |-> items]
Bol == [t |-> "bol"]

Unbounded == -1

WS0 == Cls(SpaceSet, 0, Unbounded)      \* \s*
WS1 == Cls(SpaceSet, 1, 1)              \* \s
WSopt == Cls(SpaceSet, 0, 1)            \* \s?
WSplus == Cls(SpaceSet, 1, Unbounded)   \* \s+
Digit == Cls(DigitSet, 1, 1)            \* \d
WordPlus == Cls(WordSet, 1, Unbounded)  \* \w+

\* w followed by an optional s, as in helpers?
OptS(w) == Cat(<<Lit(w), Cls({"s"}, 0, 1)>>)

RECURSIVE Lits(_)
Lits(ws) == IF ws = <<>> THEN <<>> ELSE <<Lit(Head(ws))>> \o Lits(Tail(ws))

\* an alternation of literal words
AltLits(ws) == Alt(Lits(ws))

RECURSIVE RunLength(_, _, _)
RunLength(t, p, chars) ==
    IF p < Len(t) /\ Ch(t, p + 1) \in chars THEN 1 + RunLength(t, p + 1, chars) ELSE 0

RECURSIVE CountDown(_, _)
CountDown(hi, lo) == IF hi < lo THEN <<>> ELSE <<hi>> \o CountDown(hi - 1, lo)

RECURSIVE Ends(_, _, _)
RECURSIVE EndsAlt(_, _, _)
RECURSIVE EndsCat(_, _, _)
RECURSIVE EndsEach(_, _, _)

Ends(re, t, p) ==
    CASE re.t = "lit" ->
            IF p + Len(re.s) <= Len(t) /\ SubSeq(t, p + 1, p + Len(re.s)) = re.s
            THEN <<p + Len(re.s)>>
            ELSE <<>>
      [] re.t = "cls" ->
            LET n == RunLength(t, p, re.chars)
                top == IF re.max = Unbounded \/ n < re.max THEN n ELSE re.max
            IN  CountDown(p + top, p + re.min)
      [] re.t = "bol" -> IF p = 0 THEN <<0>> ELSE <<>>
      [] re.t = "alt" -> EndsAlt(re.items, t, p)
      [] re.t = "cat" -> EndsCat(re.items, t, p)

EndsAlt(items, t, p) ==
    IF Len(items) = 0
    THEN <<>>
    ELSE IF Len(items) = 1
         THEN Ends(items[1], t, p)
         ELSE EndsAlt(SubSeq(items, 1, Len(items) \div 2), t, p)
              \o EndsAlt(SubSeq(items, Len(items) \div 2 + 1, Len(items)), t, p)

EndsCat(items, t, p) ==
    IF items = <<>> THEN <<p>> ELSE EndsEach(Ends(Head(items), t, p), Tail(items), t)

EndsEach(starts, items, t) ==
    IF starts = <<>>
    THEN <<>>
    ELSE EndsCat(items, t, Head(starts)) \o EndsEach(Tail(starts), items, t)

\* the literals of a pattern with the i flag, folded as the text is
RECURSIVE FoldRe(_)
RECURSIVE FoldItems(_)
FoldRe(re) ==
    CASE re.t = "lit" -> Lit(ToLower(re.s))
      [] re.t \in {"alt", "cat"} -> [t |-> re.t, items |-> FoldItems(re.items)]
      [] OTHER -> re

FoldItems(items) ==
    IF items = <<>> THEN <<>> ELSE <<FoldRe(Head(items))>> \o FoldItems(Tail(items))

NoMatch == -1

\* the end of the leftmost match of re in t that starts at or after position from
SearchFrom(re, t, from) ==
    LET Leftmost(starts) ==
            IF starts = {}
            THEN NoMatch
            ELSE Head(Ends(re, t, CHOOSE p \in starts : \A q \in starts : p <= q))
    IN  Leftmost({p \in from..Len(t) : Ends(re, t, p) # <<>>})

(***************************************************************************)
(* The patterns of src/rules/comments.ts.                                  *)
(***************************************************************************)
\* (?:\/\/|#|\/\*\*?) : the comment delimiters the opener patterns accept
Delimiter == Alt(<<Lit("//"), Lit("#"), Cat(<<Lit("/*"), Cls({"*"}, 0, 1)>>)>>)

\* (?:\/\/|#) : the comment delimiters the divider patterns accept
LineDelimiter == Alt(<<Lit("//"), Lit("#")>>)

ObviousVerbAlternatives ==
    Alt(<<
        Lit("initialize"), Lit("create"), Cat(<<Lit("set"), WSopt,
        Lit("up")>>), Lit("handle"), Lit("process"), Cat(<<Lit("check"),
        WS1, AltLits(<<"if", "whether">>)>>), Lit("validate"),
        Lit("update"), Lit("return"), AltLits(<<"get", "gets", "get the">>),
        Lit("store"), Lit("add"), Lit("increment"), Lit("decrement"),
        Lit("define"), Lit("declare"), Lit("assign"), Lit("call"),
        Lit("invoke"), Cat(<<Lit("loop"), WS1, AltLits(<<"through",
        "over">>)>>), Cat(<<Lit("iterate"), WS1, AltLits(<<"through",
        "over">>)>>), Lit("import"), Lit("export"), Lit("render"),
        Lit("fetch"), Lit("send"), Lit("remove"), Lit("delete"),
        Lit("destroy"), Lit("free"), Lit("reset"), Lit("clear"),
        Lit("toggle"), Lit("convert"), Lit("parse"), Lit("format"),
        Lit("calculate"), Lit("compute"), Lit("extract"), Lit("merge"),
        Lit("sort"), Lit("filter"), Lit("map"), Lit("transform"),
        Lit("append"), Lit("prepend"), Lit("push"), Lit("pop"),
        Lit("insert"), Lit("set the"), Cat(<<Lit("set"), WS1, WordPlus, WS1,
        Lit("to")>>), Lit("allocate"), Lit("malloc"), Lit("realloc")
    >>)

NarratorNouns ==
    Alt(<<
        Lit("function"), Lit("method"), Lit("class"), Lit("component"),
        Lit("hook"), Lit("module"), Lit("handler"), Lit("helper"),
        Lit("utility"), Lit("service"), Lit("middleware"), Lit("guard"),
        Lit("interceptor"), Lit("decorator"), Lit("factory"),
        Lit("provider"), Lit("controller"), Lit("resolver"),
        Lit("validator"), Lit("pipe"), Lit("filter"), Lit("struct"),
        Lit("enum"), Lit("trait"), Lit("impl"), Lit("macro"),
        Lit("typedef"), Lit("interface")
    >>)

NarratorVerbs ==
    Alt(<<
        Cat(<<Lit("is"), WSplus, Lit("responsible"), WSplus, Lit("for")>>),
        Cat(<<Lit("is"), WSplus, Lit("used"), WSplus, Lit("to")>>),
        Lit("will"), Lit("handles"), Lit("creates"), Lit("initializes"),
        Cat(<<Lit("sets"), WSplus, Lit("up")>>), Lit("processes"),
        Lit("validates"), Lit("returns"), Lit("manages"), Lit("provides"),
        Lit("defines"), Lit("takes"), Lit("accepts"), Lit("receives"),
        Lit("implements"), Lit("extends"), Lit("overrides"), Lit("wraps"),
        Lit("delegates"), Lit("dispatches"), Lit("emits"), Lit("triggers"),
        Lit("invokes"), Lit("calls"), Lit("renders"), Lit("fetches"),
        Lit("sends"), Lit("removes"), Lit("deletes"), Lit("frees"),
        Lit("updates"), Lit("checks"), Lit("ensures"), Lit("converts"),
        Lit("parses"), Lit("formats"), Lit("calculates"), Lit("computes"),
        Lit("extracts"), Lit("merges"), Lit("sorts"), Lit("filters"),
        Lit("maps"), Lit("transforms")
    >>)

DividerSectionNames ==
    Alt(<<
        OptS("helper"), OptS("util"), OptS("type"), OptS("interface"),
        OptS("constant"), OptS("export"), OptS("import"), OptS("method"),
        OptS("function"), OptS("handler"), OptS("hook"), Lit("state"),
        OptS("prop"), OptS("style"), Lit("config"), Lit("setup"),
        Lit("init"), Lit("main"), Lit("private"), Lit("public"), Lit("api"),
        OptS("route"), Lit("middleware"), Lit("validation"),
        Lit("rendering"), Lit("lifecycle"), OptS("event"), OptS("callback"),
        OptS("mutation"), OptS("action"), OptS("getter"), OptS("selector"),
        OptS("reducer"), OptS("effect"), OptS("subscription"), Lit("impl"),
        OptS("trait"), OptS("struct"), OptS("enum"), OptS("test"),
        OptS("mod"), OptS("model"), OptS("macro")
    >>)

OBVIOUS_VERBS == Cat(<<Bol, Delimiter, WS0, ObviousVerbAlternatives, WS1>>)

NARRATOR_PATTERN ==
    Cat(<<Bol, Delimiter, WS0, Lit("this"), WSplus, NarratorNouns, WSplus, NarratorVerbs>>)

\* the fault of a step pattern that is not anchored at the delimiter
STEP_PATTERNUnanchored == Cat(<<Lit("step"), WSplus, Digit>>)

STEP_PATTERN == Cat(<<Bol, Delimiter, WS0, Lit("step"), WSplus, Digit>>)

\* the fault of a banner pattern that asks for no banner character at all
DIVIDER_PATTERN_1AnyCount ==
    Cat(<<Bol, LineDelimiter, WS0, Cls({"-", "=", "~", "#", "*"}, 0, Unbounded)>>)

\* /^(?:\/\/|#)\s*[-=~#*]{3,}/
DIVIDER_PATTERN_1 ==
    Cat(<<Bol, LineDelimiter, WS0, Cls({"-", "=", "~", "#", "*"}, 3, Unbounded)>>)

\* /^(?:\/\/|#)\s*#{1,3}\s/i
DIVIDER_PATTERN_2 == Cat(<<Bol, LineDelimiter, WS0, Cls({"#"}, 1, 3), WS1>>)

\* /^(?:\/\/|#)\s*-{2,}\s*(?:helpers?|...)\s*-{0,}/i
DIVIDER_PATTERN_3 ==
    Cat(<<Bol, LineDelimiter, WS0, Cls({"-"}, 2, Unbounded), WS0, DividerSectionNames,
          WS0, Cls({"-"}, 0, Unbounded)>>)

DIVIDER_PATTERNS == <<"DIVIDER_PATTERNS[0]", "DIVIDER_PATTERNS[1]", "DIVIDER_PATTERNS[2]">>

KEEPER_PATTERN ==
    AltLits(<<"TODO", "FIXME", "HACK", "NOTE", "SAFETY", "WARN", "BUG", "XXX", "PERF",
              "IMPORTANT", "LICENSE", "COPYRIGHT">>)

(***************************************************************************)
(* The toolDirectives patterns of the language table (src/cli.ts, in the   *)
(* part that is languages.ts).                                             *)
(***************************************************************************)
ToolDirectivesTypeScript ==
    AltLits(<<"eslint", "prettier", "@ts-", "istanbul", "c8", "vitest", "jest", "biome",
              "oxlint">>)

ToolDirectivesJavaScript ==
    AltLits(<<"eslint", "prettier", "istanbul", "c8", "vitest", "jest", "webpack", "biome",
              "oxlint">>)

ToolDirectivesPython ==
    Alt(<<Lit("noqa"), Cat(<<Lit("type:"), WS0, Lit("ignore")>>), Lit("pylint"),
          Lit("mypy"), Lit("pyright"), Lit("ruff"), Lit("fmt"), Lit("isort")>>)

ToolDirectivesGo ==
    AltLits(<<"nolint", "go:generate", "go:build", "go:embed", "gofmt", "govet">>)

ToolDirectivesRust ==
    AltLits(<<"clippy", "allow", "deny", "forbid", "expect", "cfg", "rustfmt", "SAFETY",
              "safety">>)

ToolDirectivesC == AltLits(<<"NOLINT", "NOLINTNEXTLINE", "clang-format", "IWYU", "pragma">>)

ToolDirectivesCpp == AltLits(<<"NOLINT", "NOLINTNEXTLINE", "clang-format", "IWYU", "pragma">>)

ToolDirectivesJava ==
    AltLits(<<"checkstyle", "SuppressWarnings", "PMD", "SpotBugs", "NOSONAR",
              "noinspection">>)

(***************************************************************************)
(* The RegExp objects of the program: one per pattern literal, each with   *)
(* its source, its flags and (in the state) its lastIndex.                 *)
(***************************************************************************)
RegExpIds ==
    {"OBVIOUS_VERBS", "NARRATOR_PATTERN", "STEP_PATTERN", "DIVIDER_PATTERNS[0]",
     "DIVIDER_PATTERNS[1]", "DIVIDER_PATTERNS[2]", "KEEPER_PATTERN",
     "typescript.toolDirectives", "javascript.toolDirectives", "python.toolDirectives",
     "go.toolDirectives", "rust.toolDirectives", "c.toolDirectives", "cpp.toolDirectives",
     "java.toolDirectives"}

RegExpSource(id) ==
    CASE id = "OBVIOUS_VERBS" -> OBVIOUS_VERBS
      [] id = "NARRATOR_PATTERN" -> NARRATOR_PATTERN
      [] id = "STEP_PATTERN" -> STEP_PATTERN
      [] id = "DIVIDER_PATTERNS[0]" -> DIVIDER_PATTERN_1
      [] id = "DIVIDER_PATTERNS[1]" -> DIVIDER_PATTERN_2
      [] id = "DIVIDER_PATTERNS[2]" -> DIVIDER_PATTERN_3
      [] id = "KEEPER_PATTERN" -> KEEPER_PATTERN
      [] id = "typescript.toolDirectives" -> ToolDirectivesTypeScript
      [] id = "javascript.toolDirectives" -> ToolDirectivesJavaScript
      [] id = "python.toolDirectives" -> ToolDirectivesPython
      [] id = "go.toolDirectives" -> ToolDirectivesGo
      [] id = "rust.toolDirectives" -> ToolDirectivesRust
      [] id = "c.toolDirectives" -> ToolDirectivesC
      [] id = "cpp.toolDirectives" -> ToolDirectivesCpp
      [] id = "java.toolDirectives" -> ToolDirectivesJava

\* the fault of a g flag on OBVIOUS_VERBS: test() then starts at lastIndex
RegExpFlagsGlobal(id) ==
    IF id \in {"DIVIDER_PATTERNS[0]", "rust.toolDirectives"}
    THEN ""
    ELSE IF id = "OBVIOUS_VERBS" THEN "gi" ELSE "i"

\* the flags written after each pattern literal
RegExpFlags(id) ==
    IF id \in {"DIVIDER_PATTERNS[0]", "rust.toolDirectives"} THEN "" ELSE "i"

HasFlag(id, f) == \E k \in 1..Len(RegExpFlags(id)) : Ch(RegExpFlags(id), k) = f

\* a pattern as the matcher runs it: folded when it has the i flag
Compile(id) ==
    LET Folded(re) == IF HasFlag(id, "i") THEN FoldRe(re) ELSE re
    IN  Folded(RegExpSource(id))

RECURSIVE CompileAll(_)
CompileAll(ids) ==
    IF ids = <<>>
    THEN [id \in {} |-> id]
    ELSE (Head(ids) :> Compile(Head(ids))) @@ CompileAll(Tail(ids))

\* the compiled patterns, built once
Compiled ==
    CompileAll(<<"OBVIOUS_VERBS", "NARRATOR_PATTERN", "STEP_PATTERN", "DIVIDER_PATTERNS[0]",
                 "DIVIDER_PATTERNS[1]", "DIVIDER_PATTERNS[2]", "KEEPER_PATTERN",
                 "typescript.toolDirectives", "javascript.toolDirectives",
                 "python.toolDirectives", "go.toolDirectives", "rust.toolDirectives",
                 "c.toolDirectives", "cpp.toolDirectives", "java.toolDirectives">>)

\* RegExp.prototype.test: a pattern with the g or y flag starts at its lastIndex and
\* leaves the end of the match (or 0) there; any other starts at 0 and leaves it alone.
RegExpTest(id, text, li) ==
    LET keeps == HasFlag(id, "g") \/ HasFlag(id, "y")
        Exec(re, t, from) ==
            IF HasFlag(id, "y")
            THEN (IF from <= Len(t) /\ Ends(re, t, from) # <<>>
                  THEN Head(Ends(re, t, from))
                  ELSE NoMatch)
            ELSE SearchFrom(re, t, from)
        Result(end) ==
            [ok |-> end # NoMatch,
             li |-> IF keeps
                    THEN [li EXCEPT ![id] = IF end = NoMatch THEN 0 ELSE end]
                    ELSE li]
    IN  Result(Exec(Compiled[id],
                    IF HasFlag(id, "i") THEN ToLower(text) ELSE text,
                    IF keeps THEN li[id] ELSE 0))

(***************************************************************************)
(* The language table (LANGUAGES, in the part of src/cli.ts that is        *)
(* languages.ts).  toolDirectives names the RegExp object of the entry.    *)
(***************************************************************************)
LanguageKeys == <<"typescript", "javascript", "python", "go", "rust", "c", "cpp", "java">>

\* the fault of listing the header extension h for C++ as well as for C
LANGUAGESSharedHeader ==
    [typescript |->
        [lang |-> "TypeScript", commentKinds |-> <<"comment">>,
         extensions |-> <<"ts", "tsx", "mts", "cts">>,
         toolDirectives |-> "typescript.toolDirectives"],
     javascript |->
        [lang |-> "JavaScript", commentKinds |-> <<"comment">>,
         extensions |-> <<"js", "jsx", "mjs", "cjs">>,
         toolDirectives |-> "javascript.toolDirectives"],
     python |->
        [lang |-> "python", commentKinds |-> <<"comment">>,
         extensions |-> <<"py", "pyi">>,
         toolDirectives |-> "python.toolDirectives"],
     go |->
        [lang |-> "go", commentKinds |-> <<"comment">>,
         extensions |-> <<"go">>,
         toolDirectives |-> "go.toolDirectives"],
     rust |->
        [lang |-> "rust", commentKinds |-> <<"line_comment", "block_comment">>,
         extensions |-> <<"rs">>,
         toolDirectives |-> "rust.toolDirectives"],
     c |->
        [lang |-> "c", commentKinds |-> <<"comment">>,
         extensions |-> <<"c", "h">>,
         toolDirectives |-> "c.toolDirectives"],
     cpp |->
        [lang |-> "cpp", commentKinds |-> <<"comment">>,
         extensions |-> <<"cpp", "cc", "cxx", "hpp", "hh", "hxx", "h">>,
         toolDirectives |-> "cpp.toolDirectives"],
     java |->
        [lang |-> "java", commentKinds |-> <<"line_comment", "block_comment">>,
         extensions |-> <<"java">>,
         toolDirectives |-> "java.toolDirectives"]]

LANGUAGES ==
    [typescript |->
        [lang |-> "TypeScript", commentKinds |-> <<"comment">>,
         extensions |-> <<"ts", "tsx", "mts", "cts">>,
         toolDirectives |-> "typescript.toolDirectives"],
     javascript |->
        [lang |-> "JavaScript", commentKinds |-> <<"comment">>,
         extensions |-> <<"js", "jsx", "mjs", "cjs">>,
         toolDirectives |-> "javascript.toolDirectives"],
     python |->
        [lang |-> "python", commentKinds |-> <<"comment">>,
         extensions |-> <<"py", "pyi">>,
         toolDirectives |-> "python.toolDirectives"],
     go |->
        [lang |-> "go", commentKinds |-> <<"comment">>,
         extensions |-> <<"go">>,
         toolDirectives |-> "go.toolDirectives"],
     rust |->
        [lang |-> "rust", commentKinds |-> <<"line_comment", "block_comment">>,
         extensions |-> <<"rs">>,
         toolDirectives |-> "rust.toolDirectives"],
     c |->
        [lang |-> "c", commentKinds |-> <<"comment">>,
         extensions |-> <<"c", "h">>,
         toolDirectives |-> "c.toolDirectives"],
     cpp |->
        [lang |-> "cpp", commentKinds |-> <<"comment">>,
         extensions |-> <<"cpp", "cc", "cxx", "hpp", "hh", "hxx">>,
         toolDirectives |-> "cpp.toolDirectives"],
     java |->
        [lang |-> "java", commentKinds |-> <<"line_comment", "block_comment">>,
         extensions |-> <<"java">>,
         toolDirectives |-> "java.toolDirectives"]]

Includes(seq, x) == \E k \in 1..Len(seq) : seq[k] = x

\* the value that stands for undefined and null
Null == [undefined |-> TRUE]

\* Object.values(LANGUAGES).find((l) => l.extensions.includes(ext))
RECURSIVE FindLanguage(_, _)
FindLanguage(keys, ext) ==
    IF keys = <<>>
    THEN Null
    ELSE IF Includes(LANGUAGES[Head(keys)].extensions, ext)
         THEN LANGUAGES[Head(keys)]
         ELSE FindLanguage(Tail(keys), ext)

languageForExtension(ext) == FindLanguage(LanguageKeys, ext)

(***************************************************************************)
(* Syntax trees.  A source file is given by the tree the grammar of its    *)
(* language yields for it; a node carries what the rules read of an        *)
(* SgNode: kind(), isNamed(), the field it fills in its parent, text(),    *)
(* range().start (zero-based) and children().                              *)
(***************************************************************************)
Node(kind, named, field, text, line, column, children) ==
    [kind |-> kind, named |-> named, field |-> field, text |-> text,
     line |-> line, column |-> column, children |-> children]

RECURSIVE Preorder(_)
RECURSIVE PreorderAll(_)
\* a node and its descendants in the order a traversal of the tree meets them
Preorder(n) == <<n>> \o PreorderAll(n.children)

PreorderAll(ns) == IF ns = <<>> THEN <<>> ELSE Preorder(Head(ns)) \o PreorderAll(Tail(ns))

\* node.findAll({ rule: { kind } })
FindAllKind(n, kind) == SelectSeq(Preorder(n), LAMBDA d : d.kind = kind)

StartsWith(s, prefix) == Len(prefix) <= Len(s) /\ SubSeq(s, 1, Len(prefix)) = prefix

\* node.findAll("console.log($$$ARGS)"): the calls of console.log with any arguments
\* (a call is a call_expression, a method_invocation or a call, by grammar)
FindAllConsoleLog(n) ==
    SelectSeq(Preorder(n),
              LAMBDA d : /\ d.kind \in {"call_expression", "method_invocation", "call"}
                         /\ StartsWith(d.text, "console.log("))

\* node.field(name)
NodeField(n, name) ==
    IF \E k \in 1..Len(n.children) : n.children[k].field = name
    THEN n.children[CHOOSE k \in 1..Len(n.children) :
                        /\ n.children[k].field = name
                        /\ \A j \in 1..(k - 1) : n.children[j].field # name]
    ELSE Null

NamedChildren(n) == SelectSeq(n.children, LAMBDA c : c.named)

(***************************************************************************)
(* The comment rules (src/rules/comments.ts).  A check returns whether the *)
(* rule matched and the lastIndex values its pattern tests leave.          *)
(***************************************************************************)
isComment(node, lang) == Includes(lang.commentKinds, node.kind)

isToolDirective(text, lang, li) == RegExpTest(lang.toolDirectives, text, li)

\* the fault of a marker gate that forgets the tool directives
shouldKeepMarkerOnly(text, lang, li) == RegExpTest("KEEPER_PATTERN", text, li)

shouldKeep(text, lang, li) ==
    LET Or(kept) == IF kept.ok THEN kept ELSE isToolDirective(text, lang, kept.li)
    IN  Or(RegExpTest("KEEPER_PATTERN", text, li))

commentText(node) == Trim(node.text)

\* patterns.some((p) => p.test(text))
RECURSIVE SomeTest(_, _, _)
SomeTest(patterns, text, li) ==
    IF patterns = <<>>
    THEN [ok |-> FALSE, li |-> li]
    ELSE LET Or(r) == IF r.ok THEN r ELSE SomeTest(Tail(patterns), text, r.li)
         IN  Or(RegExpTest(Head(patterns), text, li))

\* the body the four comment rules share, each with its own pattern
commentCheck(patterns, node, lang, li) ==
    LET Unkept(text, kept) ==
            IF kept.ok THEN [ok |-> FALSE, li |-> kept.li] ELSE SomeTest(patterns, text, kept.li)
        Checked(text) == Unkept(text, shouldKeep(text, lang, li))
    IN  IF ~isComment(node, lang)
        THEN [ok |-> FALSE, li |-> li]
        ELSE Checked(commentText(node))

AllLanguages == [defined |-> FALSE, list |-> <<>>]
OnlyLanguages(list) == [defined |-> TRUE, list |-> list]

obviousComment ==
    [name |-> "obviousComment", id |-> "obvious-comment",
     message |-> "Obvious comment - remove it, the code should speak for itself",
     note |-> "Comments should explain WHY or document non-obvious constraints, not restate WHAT.",
     languages |-> AllLanguages]

narratorComment ==
    [name |-> "narratorComment", id |-> "narrator-comment",
     message |-> "This function... comment - let the function name and signature tell the story",
     note |-> "A well-named function doesn't need a preamble.",
     languages |-> AllLanguages]

stepComment ==
    [name |-> "stepComment", id |-> "step-comment",
     message |-> "Step N: comment - the function is doing too much",
     note |-> "Numbered step comments suggest the function should be split.",
     languages |-> AllLanguages]

sectionDivider ==
    [name |-> "sectionDivider", id |-> "section-divider",
     message |-> "Section divider comment - extract into separate modules instead",
     note |-> "If your file needs section banners, it's probably too long.",
     languages |-> AllLanguages]

commentRules == <<obviousComment, narratorComment, stepComment, sectionDivider>>

(***************************************************************************)
(* The error-handling rules (src/rules/error-handling.ts).                 *)
(***************************************************************************)
emptyCatchTS ==
    [name |-> "emptyCatchTS", id |-> "empty-error-handler",
     message |-> "Empty catch block silently swallows errors",
     note |-> "At minimum, log the error or add a comment explaining why it's safe to ignore.",
     languages |-> OnlyLanguages(<<"TypeScript", "JavaScript">>)]

emptyCatchJava ==
    [name |-> "emptyCatchJava", id |-> "empty-error-handler",
     message |-> "Empty catch block silently swallows errors",
     note |-> "At minimum, log the error or add a comment explaining why it's safe to ignore.",
     languages |-> OnlyLanguages(<<"java">>)]

bareExceptPython ==
    [name |-> "bareExceptPython", id |-> "empty-error-handler",
     message |-> "Bare except catches everything including KeyboardInterrupt and SystemExit",
     note |-> "Use except Exception: to avoid catching system-level exceptions.",
     languages |-> OnlyLanguages(<<"python">>)]

passInExceptPython ==
    [name |-> "passInExceptPython", id |-> "silent-exception",
     message |-> "Silent exception swallowing - at minimum log the error",
     note |-> "AI loves except Exception: pass to make code robust. This hides bugs.",
     languages |-> OnlyLanguages(<<"python">>)]

consoleLogInCatchTS ==
    [name |-> "consoleLogInCatchTS", id |-> "log-in-error-handler",
     message |-> "console.log in catch - use console.error or a proper logger",
     note |-> "AI defaults to console.log for everything, even error handling.",
     languages |-> OnlyLanguages(<<"TypeScript", "JavaScript">>)]

errorHandlingRules ==
    <<emptyCatchTS, emptyCatchJava, bareExceptPython, passInExceptPython, consoleLogInCatchTS>>

\* the fault of counting every child of the body, the braces included
emptyCatchCheckAllChildren(node) ==
    IF node.kind # "catch_clause"
    THEN FALSE
    ELSE LET body == NodeField(node, "body")
         IN  IF body = Null THEN FALSE ELSE Len(body.children) = 0

\* the check of emptyCatchTS and of emptyCatchJava
emptyCatchCheck(node) ==
    IF node.kind # "catch_clause"
    THEN FALSE
    ELSE LET body == NodeField(node, "body")
         IN  IF body = Null THEN FALSE ELSE Len(NamedChildren(body)) = 0

bareExceptCheck(node) ==
    IF node.kind # "except_clause"
    THEN FALSE
    ELSE LET hasType == \E k \in 1..Len(node.children) :
                            node.children[k].kind \in {"identifier", "as_pattern"}
         IN  ~hasType

\* the fault of reporting a block that holds a pass statement among others
passInExceptCheckSomePass(node) ==
    IF node.kind # "except_clause"
    THEN FALSE
    ELSE LET blocks == SelectSeq(node.children, LAMBDA c : c.kind = "block")
         IN  IF blocks = <<>>
             THEN FALSE
             ELSE SelectSeq(NamedChildren(Head(blocks)),
                            LAMBDA c : c.kind = "pass_statement") # <<>>

passInExceptCheck(node) ==
    IF node.kind # "except_clause"
    THEN FALSE
    ELSE LET blocks == SelectSeq(node.children, LAMBDA c : c.kind = "block")
         IN  IF blocks = <<>>
             THEN FALSE
             ELSE LET stmts == NamedChildren(Head(blocks))
                  IN  Len(stmts) = 1 /\ stmts[1].kind = "pass_statement"

\* the fault of matching a call of any method of console
consoleLogInCatchCheckAnyConsole(node) ==
    IF node.kind # "catch_clause"
    THEN FALSE
    ELSE SelectSeq(Preorder(node),
                   LAMBDA d : /\ d.kind \in {"call_expression", "method_invocation", "call"}
                              /\ StartsWith(d.text, "console.")) # <<>>

consoleLogInCatchCheck(node) ==
    IF node.kind # "catch_clause" THEN FALSE ELSE Len(FindAllConsoleLog(node)) > 0

\* the node kind the check of a structural rule asks for before anything else
TestedKind(rule) ==
    CASE rule.name \in {"emptyCatchTS", "emptyCatchJava", "consoleLogInCatchTS"} -> "catch_clause"
      [] rule.name \in {"bareExceptPython", "passInExceptPython"} -> "except_clause"

\* the patterns the check of a comment rule tests
PatternsOf(rule) ==
    CASE rule.name = "obviousComment" -> <<"OBVIOUS_VERBS">>
      [] rule.name = "narratorComment" -> <<"NARRATOR_PATTERN">>
      [] rule.name = "stepComment" -> <<"STEP_PATTERN">>
      [] rule.name = "sectionDivider" -> DIVIDER_PATTERNS

\* rule.check(node, lang)
check(rule, node, lang, li) ==
    CASE rule.name \in {"obviousComment", "narratorComment", "stepComment", "sectionDivider"} ->
            commentCheck(PatternsOf(rule), node, lang, li)
      [] rule.name \in {"emptyCatchTS", "emptyCatchJava"} ->
            [ok |-> emptyCatchCheck(node), li |-> li]
      [] rule.name = "bareExceptPython" -> [ok |-> bareExceptCheck(node), li |-> li]
      [] rule.name = "passInExceptPython" -> [ok |-> passInExceptCheck(node), li |-> li]
      [] rule.name = "consoleLogInCatchTS" -> [ok |-> consoleLogInCatchCheck(node), li |-> li]

(***************************************************************************)
(* src/rules/index.ts and src/scanner.ts.                                  *)
(***************************************************************************)
\* the fault of a rule set that ignores rule.languages
rulesForLanguageUnfiltered(lang) == [comment |-> commentRules, ast |-> errorHandlingRules]

rulesForLanguage(lang) ==
    [comment |-> commentRules,
     ast |-> SelectSeq(errorHandlingRules,
                       LAMBDA r : ~r.languages.defined \/ Includes(r.languages.list, lang.lang))]

AST_RULE_KINDS ==
    [TypeScript |-> <<"catch_clause">>,
     JavaScript |-> <<"catch_clause">>,
     java |-> <<"catch_clause">>,
     python |-> <<"except_clause">>,
     ruby |-> <<"rescue">>]

\* AST_RULE_KINDS[lang.lang] ?? []
AstRuleKinds(lang) ==
    IF lang.lang \in DOMAIN AST_RULE_KINDS THEN AST_RULE_KINDS[lang.lang] ELSE <<>>

\* the fault of reporting the zero-based position of the node
makeDiagnosticZeroBased(rule, node, filename) ==
    [rule |-> rule.id,
     message |-> rule.message,
     note |-> rule.note,
     file |-> filename,
     line |-> node.line,
     column |-> node.column,
     text |-> FirstLine(node.text)]

\* the fault of reporting the whole text of the node
makeDiagnosticWholeText(rule, node, filename) ==
    [rule |-> rule.id,
     message |-> rule.message,
     note |-> rule.note,
     file |-> filename,
     line |-> node.line + 1,
     column |-> node.column + 1,
     text |-> node.text]

makeDiagnostic(rule, node, filename) ==
    [rule |-> rule.id,
     message |-> rule.message,
     note |-> rule.note,
     file |-> filename,
     line |-> node.line + 1,
     column |-> node.column + 1,
     text |-> FirstLine(node.text)]

\* what a loop has pushed and called after its first round and the rounds that follow
Pushed(first, rest) ==
    [diagnostics |-> first.diagnostics \o rest.diagnostics,
     li |-> rest.li,
     checked |-> first.checked \cup rest.checked]

\* the fault of a loop that stops at the first rule that matches (a single best match)
RECURSIVE RunRulesFirstMatch(_, _, _, _, _)
RunRulesFirstMatch(rules, node, lang, filename, li) ==
    IF rules = <<>>
    THEN [diagnostics |-> <<>>, li |-> li, checked |-> {}]
    ELSE LET Round(match) ==
                 IF match.ok
                 THEN [diagnostics |-> <<makeDiagnostic(Head(rules), node, filename)>>,
                       li |-> match.li,
                       checked |-> {Head(rules).name}]
                 ELSE Pushed([diagnostics |-> <<>>, checked |-> {Head(rules).name}],
                             RunRulesFirstMatch(Tail(rules), node, lang, filename, match.li))
         IN  Round(check(Head(rules), node, lang, li))

\* the innermost loop of a pass: every rule on one node
RECURSIVE RunRules(_, _, _, _, _)
RunRules(rules, node, lang, filename, li) ==
    IF rules = <<>>
    THEN [diagnostics |-> <<>>, li |-> li, checked |-> {}]
    ELSE LET Round(match) ==
                 Pushed([diagnostics |-> IF match.ok
                                         THEN <<makeDiagnostic(Head(rules), node, filename)>>
                                         ELSE <<>>,
                         checked |-> {Head(rules).name}],
                        RunRules(Tail(rules), node, lang, filename, match.li))
         IN  Round(check(Head(rules), node, lang, li))

\* the middle loop of a pass: every node of one kind
RECURSIVE RunNodes(_, _, _, _, _)
RunNodes(nodes, rules, lang, filename, li) ==
    IF nodes = <<>>
    THEN [diagnostics |-> <<>>, li |-> li, checked |-> {}]
    ELSE LET Round(first) ==
                 Pushed(first, RunNodes(Tail(nodes), rules, lang, filename, first.li))
         IN  Round(RunRules(rules, Head(nodes), lang, filename, li))

\* the outer loop of a pass: every kind, in the order of the list
RECURSIVE RunKinds(_, _, _, _, _, _)
RunKinds(kinds, root, rules, lang, filename, li) ==
    IF kinds = <<>>
    THEN [diagnostics |-> <<>>, li |-> li, checked |-> {}]
    ELSE LET Round(first) ==
                 Pushed(first, RunKinds(Tail(kinds), root, rules, lang, filename, first.li))
         IN  Round(RunNodes(FindAllKind(root, Head(kinds)), rules, lang, filename, li))

\* the fault of running the structural pass before the comment pass
scanSourcePassBFirst(root, lang, filename, li) ==
    LET rules == rulesForLanguage(lang)
        PassA(passB) ==
            Pushed(passB, RunKinds(lang.commentKinds, root, rules.comment, lang, filename,
                                   passB.li))
    IN  PassA(IF Len(rules.ast) > 0
              THEN RunKinds(AstRuleKinds(lang), root, rules.ast, lang, filename, li)
              ELSE [diagnostics |-> <<>>, li |-> li, checked |-> {}])

\* the fault of a structural pass that asks neither the rules nor the table for the
\* language: every structural rule on every catch and except clause
scanSourceEveryLanguage(root, lang, filename, li) ==
    LET PassB(passA) ==
            Pushed(passA,
                   RunKinds(<<"catch_clause", "except_clause">>, root, errorHandlingRules,
                            lang, filename, passA.li))
    IN  PassB(RunKinds(lang.commentKinds, root, commentRules, lang, filename, li))

\* scanSource, given the tree parse() returns for the source.  Beside the
\* diagnostics it returns, the result tells the lastIndex values it leaves and
\* which rules' checks it called (checked).
scanSource(root, lang, filename, li) ==
    LET rules == rulesForLanguage(lang)
        PassB(passA) ==
            Pushed(passA,
                   IF Len(rules.ast) > 0
                   THEN RunKinds(AstRuleKinds(lang), root, rules.ast, lang, filename, passA.li)
                   ELSE [diagnostics |-> <<>>, li |-> passA.li, checked |-> {}])
    IN  PassB(RunKinds(lang.commentKinds, root, rules.comment, lang, filename, li))

(***************************************************************************)
(* src/formatter.ts.  A line of the report is a record of what it shows.   *)
(***************************************************************************)
RECURSIVE FileOrder(_, _)
\* the keys of byFile, in the order a Map keeps them: by first insertion
FileOrder(diagnostics, seen) ==
    IF diagnostics = <<>>
    THEN seen
    ELSE FileOrder(Tail(diagnostics),
                   IF Includes(seen, Head(diagnostics).file)
                   THEN seen
                   ELSE Append(seen, Head(diagnostics).file))

RECURSIVE DiagnosticLines(_)
DiagnosticLines(diags) ==
    IF diags = <<>>
    THEN <<>>
    ELSE LET d == Head(diags)
         IN  <<[kind |-> "warning", line |-> d.line, column |-> d.column,
                message |-> d.message, rule |-> d.rule]>>
             \o (IF d.text # "" THEN <<[kind |-> "text", text |-> d.text]>> ELSE <<>>)
             \o DiagnosticLines(Tail(diags))

RECURSIVE FileBlocks(_, _)
FileBlocks(order, diagnostics) ==
    IF order = <<>>
    THEN <<>>
    ELSE <<[kind |-> "blank"], [kind |-> "file", file |-> Head(order)]>>
         \o DiagnosticLines(SelectSeq(diagnostics, LAMBDA d : d.file = Head(order)))
         \o FileBlocks(Tail(order), diagnostics)

formatDiagnostics(diagnostics) ==
    IF Len(diagnostics) = 0
    THEN <<>>
    ELSE FileBlocks(FileOrder(diagnostics, <<>>), diagnostics)
         \o <<[kind |-> "blank"], [kind |-> "problems", count |-> Len(diagnostics)]>>

(***************************************************************************)
(* Source files, as the grammars of the supported languages parse them.    *)
(***************************************************************************)
Token(text) == Node(text, FALSE, "", text, 0, 0, <<>>)

\* the kind a grammar gives a comment: Rust and Java tell line from block comments
CommentKindOf(key, text) ==
    IF key \in {"rust", "java"}
    THEN (IF StartsWith(text, "/*") THEN "block_comment" ELSE "line_comment")
    ELSE "comment"

CommentNode(key, text, line, column) ==
    Node(CommentKindOf(key, text), TRUE, "", text, line, column, <<>>)

CallKind(key) ==
    CASE key = "java" -> "method_invocation"
      [] key = "python" -> "call"
      [] OTHER -> "call_expression"

\* a statement that is one call, e.g. console.log(e)
CallStatement(key, callText, line, column) ==
    Node("expression_statement", TRUE, "", callText, line, column,
         <<Node(CallKind(key), TRUE, "", callText, line, column, <<>>)>>)

\* catch (e) { stmts } of TypeScript, JavaScript, Java and C++
CatchClause(text, line, column, stmts) ==
    Node("catch_clause", TRUE, "handler", text, line, column,
         <<Token("catch"),
           Node("identifier", TRUE, "parameter", "e", line, column + 7, <<>>),
           Node("statement_block", TRUE, "body", "{...}", line, column + 10,
                <<Token("{")>> \o stmts \o <<Token("}")>>)>>)

\* except <type>: <stmts> of Python; type is <<>> for a bare except
ExceptClause(text, line, column, type, stmts) ==
    Node("except_clause", TRUE, "", text, line, column,
         <<Token("except")>> \o type \o
         <<Token(":"), Node("block", TRUE, "", "...", line + 1, column + 4, stmts)>>)

RootKind(key) ==
    CASE key \in {"typescript", "javascript", "java"} -> "program"
      [] key = "python" -> "module"
      [] key \in {"go", "rust"} -> "source_file"
      [] key \in {"c", "cpp"} -> "translation_unit"

\* an item spans at most three lines: the k-th top-level item of a file starts on
\* line 3 * (k - 1)
LineOfItem(k) == 3 * (k - 1)

\* the items a file of the language can hold, by name
Item(key, name, line) ==
    CASE name = "obvious" ->
            CommentNode(key, IF key = "python" THEN "# Initialize the counter"
                             ELSE "// Initialize the counter", line, 0)
      [] name = "narratorBlock" ->
            CommentNode(key, "/* This function handles the request\n   of the client */", line, 0)
      [] name = "useful" ->
            CommentNode(key, IF key = "python" THEN "# Wire format: 4-byte LE header"
                             ELSE "// Wire format: 4-byte LE header", line, 0)
      [] name = "emptyCatch" -> CatchClause("catch (e) {}", line, 2, <<>>)
      [] name = "logCatch" ->
            CatchClause("catch (e) {\n    console.log(e)\n  }", line, 2,
                        <<CallStatement(key, "console.log(e)", line + 1, 4)>>)
      [] name = "errorCatch" ->
            CatchClause("catch (e) { console.error(e) }", line, 2,
                        <<CallStatement(key, "console.error(e)", line, 14)>>)
      [] name = "defaultLogCatch" ->
            Node("catch_clause", TRUE, "handler",
                 "catch ({ message = console.log(1) }) { console.error(message) }", line, 2,
                 <<Token("catch"),
                   Node("object_pattern", TRUE, "parameter", "{ message = console.log(1) }",
                        line, 9,
                        <<Node("object_assignment_pattern", TRUE, "", "message = console.log(1)",
                               line, 11,
                               <<Node("shorthand_property_identifier_pattern", TRUE, "left",
                                      "message", line, 11, <<>>),
                                 Node(CallKind(key), TRUE, "right", "console.log(1)",
                                      line, 21, <<>>)>>)>>),
                   Node("statement_block", TRUE, "body", "{...}", line, 39,
                        <<Token("{"), CallStatement(key, "console.error(message)", line, 41),
                          Token("}")>>)>>)
      [] name = "commentCatch" ->
            CatchClause("catch (e) { /* ignored */ }", line, 2,
                        <<CommentNode(key, "/* ignored */", line, 14)>>)
      [] name = "bareExceptPass" ->
            ExceptClause("except:\n    pass", line, 0, <<>>,
                         <<Node("pass_statement", TRUE, "", "pass", line + 1, 4, <<>>)>>)
      [] name = "typedExceptPass" ->
            ExceptClause("except Exception:\n    pass", line, 0,
                         <<Node("identifier", TRUE, "", "Exception", line, 7, <<>>)>>,
                         <<Node("pass_statement", TRUE, "", "pass", line + 1, 4, <<>>)>>)
      [] name = "typedExceptPrint" ->
            ExceptClause("except Exception as e:\n    print(e)", line, 0,
                         <<Node("as_pattern", TRUE, "", "Exception as e", line, 7, <<>>)>>,
                         <<CallStatement(key, "print(e)", line + 1, 4)>>)
      [] name = "typedExceptPassPrint" ->
            ExceptClause("except Exception:\n    pass\n    print(1)", line, 0,
                         <<Node("identifier", TRUE, "", "Exception", line, 7, <<>>)>>,
                         <<Node("pass_statement", TRUE, "", "pass", line + 1, 4, <<>>),
                           CallStatement(key, "print(1)", line + 2, 4)>>)
      [] name = "tupleExceptPrint" ->
            ExceptClause("except (ValueError, TypeError):\n    print(1)", line, 0,
                         <<Node("tuple", TRUE, "", "(ValueError, TypeError)", line, 7, <<>>)>>,
                         <<CallStatement(key, "print(1)", line + 1, 4)>>)
      [] name = "dottedExceptPass" ->
            ExceptClause("except os.error:\n    pass", line, 0,
                         <<Node("attribute", TRUE, "", "os.error", line, 7, <<>>)>>,
                         <<Node("pass_statement", TRUE, "", "pass", line + 1, 4, <<>>)>>)
      [] name = "emptyRescue" ->
            Node("rescue", TRUE, "", "rescue", line, 0, <<Token("rescue")>>)
      [] name = "bareExceptPrint" ->
            ExceptClause("except:\n    print(1)", line, 0, <<>>,
                         <<CallStatement(key, "print(1)", line + 1, 4)>>)

ItemNames(key) ==
    CASE key \in {"typescript", "javascript"} ->
            {"obvious", "narratorBlock", "emptyCatch", "logCatch", "errorCatch",
             "commentCatch", "defaultLogCatch"}
      [] key \in {"java", "cpp"} ->
            {"obvious", "narratorBlock", "emptyCatch", "logCatch", "errorCatch",
             "commentCatch"}
      [] key = "python" -> {"obvious", "useful", "bareExceptPass", "typedExceptPass",
                            "typedExceptPrint", "tupleExceptPrint", "dottedExceptPass",
                            "bareExceptPrint", "typedExceptPassPrint"}
      [] key \in {"go", "rust", "c"} -> {"obvious", "narratorBlock", "useful"}

RECURSIVE ItemsFrom(_, _, _)
ItemsFrom(key, names, k) ==
    IF k > Len(names)
    THEN <<>>
    ELSE <<Item(key, names[k], LineOfItem(k))>> \o ItemsFrom(key, names, k + 1)

\* the tree of the file that holds the named items, top to bottom
FileOf(key, names) == Node(RootKind(key), TRUE, "", "", 0, 0, ItemsFrom(key, names, 1))

SeqsUpTo(S, n) == UNION {[1..m -> S] : m \in 0..n}

(***************************************************************************)
(* The inputs of the test harness: per language, the files that hold one   *)
(* comment built from an opener and a tail, and the files that hold up to  *)
(* MaxItems of the language's items.                                       *)
(***************************************************************************)
Openers ==
    {"Initialize the ", "This function handles the ", "Step 1: update the ", "==== ",
     "--- Helpers --- ", "... rest of the ", "quick ", "Add your code here ",
     "Wire format of the "}

Tails ==
    {"counter", "notebook", "debug", "performance", "NOTE", "TODO", "hack", "code",
     "eslint-disable", "noqa", "SAFETY", "allow"}

CommentBodies == {o \o t : o \in Openers, t \in Tails} \cup Openers

\* comments in the words of the tests
ScenarioTexts ==
    {"// This function handles the request", "// Step 1: validate input",
     "// Initialize step 1 of the counter"}

\* comments that hold nothing but their delimiter and whitespace
EmptyCommentTexts(key) ==
    IF key = "python"
    THEN {"#", "#  "}
    ELSE {"//", "// ", "//\t ", "/* */", "/**/", "/** */"}

CommentTexts(key) ==
    IF key = "python"
    THEN {"# " \o b : b \in CommentBodies} \cup EmptyCommentTexts(key)
    ELSE {"// " \o b : b \in CommentBodies} \cup {"/* " \o b \o " */" : b \in CommentBodies}
             \cup ScenarioTexts \cup EmptyCommentTexts(key)

OneCommentFile(key, text) ==
    Node(RootKind(key), TRUE, "", "", 0, 0, <<CommentNode(key, text, 0, 0)>>)

Sources(key) ==
    {OneCommentFile(key, t) : t \in CommentTexts(key)}
        \cup {FileOf(key, names) : names \in SeqsUpTo(ItemNames(key), MaxItems)}

LanguageKeySet == {LanguageKeys[k] : k \in 1..Len(LanguageKeys)}

(***************************************************************************)
(* The file system main() runs on.                                         *)
(***************************************************************************)
Cwd == "/w"

Dir(names) == [type |-> "dir", names |-> names, readable |-> TRUE, content |-> Null]
\* a file holds the items of its source text, by name
File(key, names) ==
    [type |-> "file", names |-> <<>>, readable |-> TRUE,
     content |-> [key |-> key, names |-> names]]
\* a file that stat finds and readFileSync cannot read (EACCES)
LockedFile(key, names) ==
    [type |-> "file", names |-> <<>>, readable |-> FALSE,
     content |-> [key |-> key, names |-> names]]

FileSystem ==
    ("/w/a.ts" :> File("typescript", <<"obvious", "emptyCatch">>))
    @@ ("/w/b.py" :> File("python", <<"obvious", "bareExceptPass">>))
    @@ ("/w/c.rs" :> File("rust", <<"narratorBlock", "obvious">>))
    @@ ("/w/clean.go" :> File("go", <<"useful">>))
    @@ ("/w/util.h" :> File("c", <<"obvious">>))
    @@ ("/w/notes.md" :> File("markdown", <<>>))
    @@ ("/w/d.rb" :> File("ruby", <<"emptyRescue">>))
    @@ ("/w/secret.md" :> LockedFile("markdown", <<>>))
    @@ ("/w/locked.ts" :> LockedFile("typescript", <<"obvious">>))
    @@ ("/w/proj" :> Dir(<<".hidden.ts", "node_modules", "sub", "x.ts">>))
    @@ ("/w/proj/.hidden.ts" :> File("typescript", <<"obvious">>))
    @@ ("/w/proj/node_modules" :> Dir(<<"y.js">>))
    @@ ("/w/proj/node_modules/y.js" :> File("javascript", <<"obvious">>))
    @@ ("/w/proj/sub" :> Dir(<<"z.py">>))
    @@ ("/w/proj/sub/z.py" :> File("python", <<"typedExceptPass">>))
    @@ ("/w/proj/x.ts" :> File("typescript", <<"logCatch">>))

\* parse(lang.lang, source).root()
parse(content) == FileOf(content.key, content.names)

\* the paths a command line can name
ArgPaths ==
    {"a.ts", "./a.ts", "b.py", "c.rs", "clean.go", "notes.md", "locked.ts", "missing.ts",
     "proj", "d.rb", "proj/x.ts", "secret.md", "util.h"}

\* path.resolve of a relative path
resolve(p) ==
    IF StartsWith(p, "./") THEN Cwd \o "/" \o SubSeq(p, 3, Len(p)) ELSE Cwd \o "/" \o p

\* path.join(dir, name)
join(dir, name) == dir \o "/" \o name

RECURSIVE LastIndexOf(_, _, _)
\* the last position at or before i where s holds the character c, or 0
LastIndexOf(s, c, i) ==
    IF i = 0 THEN 0 ELSE IF Ch(s, i) = c THEN i ELSE LastIndexOf(s, c, i - 1)

\* path.extname: from the last dot of the base name, unless that is its first character
extname(path) ==
    LET slash == LastIndexOf(path, "/", Len(path))
        base == SubSeq(path, slash + 1, Len(path))
        dot == LastIndexOf(base, ".", Len(base))
    IN  IF dot <= 1 THEN "" ELSE SubSeq(base, dot, Len(base))

(***************************************************************************)
(* src/cli.ts.                                                             *)
(***************************************************************************)
SKIP ==
    {"node_modules", ".git", "dist", "build", "out", ".next", "vendor", "target",
     "__pycache__", ".venv", "venv"}

RECURSIVE walkDir(_)
RECURSIVE walkEntries(_, _)
\* the files walkDir(dir, files) pushes, in order
walkDir(dir) == walkEntries(dir, FileSystem[dir].names)

walkEntries(dir, names) ==
    IF names = <<>>
    THEN <<>>
    ELSE LET name == Head(names)
             full == join(dir, name)
             rest == walkEntries(dir, Tail(names))
         IN  IF StartsWith(name, ".") /\ name # "."
             THEN rest
             ELSE IF name \in SKIP
                  THEN rest
                  ELSE IF FileSystem[full].type = "dir"
                       THEN walkDir(full) \o rest
                       ELSE IF FileSystem[full].type = "file"
                            THEN <<full>> \o rest
                            ELSE rest

RECURSIVE collectFiles(_)
collectFiles(paths) ==
    IF paths = <<>>
    THEN <<>>
    ELSE LET resolved == resolve(Head(paths))
             rest == collectFiles(Tail(paths))
         IN  IF resolved \notin DOMAIN FileSystem
             THEN rest
             ELSE IF FileSystem[resolved].type = "file"
                  THEN <<resolved>> \o rest
                  ELSE IF FileSystem[resolved].type = "dir"
                       THEN walkDir(resolved) \o rest
                       ELSE rest

Running == -1

NoRegExpUsed == [id \in RegExpIds |-> 0]

Init ==
    /\ pc = "start"
    /\ args \in SeqsUpTo(ArgPaths, MaxArgs)
    /\ files = <<>>
    /\ cursor = 0
    /\ allDiagnostics = <<>>
    /\ stdout = <<>>
    /\ exitCode = Running
    /\ uncaught = FALSE
    /\ lastIndex = NoRegExpUsed
    /\ calls = <<>>

\* main: no arguments, usage() exits with 1
Usage ==
    /\ pc = "start"
    /\ Len(args) = 0
    /\ exitCode' = 1
    /\ pc' = "exited"
    /\ UNCHANGED <<args, files, cursor, allDiagnostics, stdout, uncaught, lastIndex, calls>>

\* main: collectFiles found nothing, exit with 0
CollectNothing ==
    /\ pc = "start"
    /\ Len(args) > 0
    /\ Len(collectFiles(args)) = 0
    /\ exitCode' = 0
    /\ pc' = "exited"
    /\ UNCHANGED <<args, files, cursor, allDiagnostics, stdout, uncaught, lastIndex, calls>>

\* main: collectFiles found files, the loop starts
Collect ==
    /\ pc = "start"
    /\ Len(args) > 0
    /\ Len(collectFiles(args)) > 0
    /\ files' = collectFiles(args)
    /\ pc' = "loop"
    /\ UNCHANGED <<args, cursor, allDiagnostics, stdout, exitCode, uncaught, lastIndex, calls>>

CurrentFile == files[cursor + 1]

CurrentLang == languageForExtension(SubSeq(extname(CurrentFile), 2, Len(extname(CurrentFile))))

\* the fault of treating a file of no supported language as a failure of the run
SkipFileFails ==
    /\ pc = "loop"
    /\ cursor < Len(files)
    /\ CurrentLang = Null
    /\ exitCode' = 1
    /\ pc' = "exited"
    /\ UNCHANGED <<args, files, cursor, allDiagnostics, stdout, uncaught, lastIndex, calls>>

\* the loop of main, a file of no supported language: continue
SkipFile ==
    /\ pc = "loop"
    /\ cursor < Len(files)
    /\ CurrentLang = Null
    /\ cursor' = cursor + 1
    /\ UNCHANGED <<pc, args, files, allDiagnostics, stdout, exitCode, uncaught, lastIndex, calls>>

\* the loop of main, a file that is read and scanned
ScanFile ==
    /\ pc = "loop"
    /\ cursor < Len(files)
    /\ CurrentLang # Null
    /\ FileSystem[CurrentFile].readable
    /\ LET Push(root, r) ==
               /\ allDiagnostics' = allDiagnostics \o r.diagnostics
               /\ lastIndex' = r.li
               /\ calls' = Append(calls, [root |-> root, lang |-> CurrentLang,
                                          filename |-> CurrentFile,
                                          diagnostics |-> r.diagnostics,
                                          checked |-> r.checked])
           Scan(root) == Push(root, scanSource(root, CurrentLang, CurrentFile, lastIndex))
       IN  Scan(parse(FileSystem[CurrentFile].content))
    /\ cursor' = cursor + 1
    /\ UNCHANGED <<pc, args, files, stdout, exitCode, uncaught>>

\* the loop of main, readFileSync throws: nothing catches it, the process dies with 1
ReadFails ==
    /\ pc = "loop"
    /\ cursor < Len(files)
    /\ CurrentLang # Null
    /\ ~FileSystem[CurrentFile].readable
    /\ uncaught' = TRUE
    /\ exitCode' = 1
    /\ pc' = "exited"
    /\ UNCHANGED <<args, files, cursor, allDiagnostics, stdout, lastIndex, calls>>

\* the fault of a report that ends the process with 0
ReportExitZero ==
    /\ pc = "loop"
    /\ cursor = Len(files)
    /\ Len(allDiagnostics) > 0
    /\ stdout' = formatDiagnostics(allDiagnostics)
    /\ exitCode' = 0
    /\ pc' = "exited"
    /\ UNCHANGED <<args, files, cursor, allDiagnostics, uncaught, lastIndex, calls>>

\* main after the loop, with diagnostics: print the report, exit with 1
Report ==
    /\ pc = "loop"
    /\ cursor = Len(files)
    /\ Len(allDiagnostics) > 0
    /\ stdout' = formatDiagnostics(allDiagnostics)
    /\ exitCode' = 1
    /\ pc' = "exited"
    /\ UNCHANGED <<args, files, cursor, allDiagnostics, uncaught, lastIndex, calls>>

\* main after the loop, without diagnostics: main returns and the process ends with 0
Finish ==
    /\ pc = "loop"
    /\ cursor = Len(files)
    /\ Len(allDiagnostics) = 0
    /\ exitCode' = 0
    /\ pc' = "exited"
    /\ UNCHANGED <<args, files, cursor, allDiagnostics, stdout, uncaught, lastIndex, calls>>

Next ==
    \/ Usage
    \/ CollectNothing
    \/ Collect
    \/ SkipFile
    \/ ScanFile
    \/ ReadFails
    \/ Report
    \/ Finish

Spec == Init /\ [][Next]_vars

(***************************************************************************)
(* The test harness: scan(code, langKey) of the test file, once, in a      *)
(* fresh process.                                                          *)
(***************************************************************************)
InitScan ==
    /\ pc = "test"
    /\ args \in UNION {{<<key, root>> : root \in Sources(key)} : key \in LanguageKeySet}
    /\ files = <<>>
    /\ cursor = 0
    /\ allDiagnostics = <<>>
    /\ stdout = <<>>
    /\ exitCode = Running
    /\ uncaught = FALSE
    /\ lastIndex = NoRegExpUsed
    /\ calls = <<>>

\* scan(code, langKey) of the test file; root is the tree of code
scan(root, langKey) ==
    LET lang == LANGUAGES[langKey]
        filename == "test." \o lang.extensions[1]
        Returned(r) ==
            /\ calls' = Append(calls, [root |-> root, lang |-> lang, filename |-> filename,
                                       diagnostics |-> r.diagnostics, checked |-> r.checked])
            /\ lastIndex' = r.li
    IN  Returned(scanSource(root, lang, filename, lastIndex))

\* a test calls scan with its arguments
TestScan ==
    /\ pc = "test"
    /\ scan(args[2], args[1])
    /\ pc' = "tested"
    /\ UNCHANGED <<args, files, cursor, allDiagnostics, stdout, exitCode, uncaught>>

NextScan == TestScan

SpecScan == InitScan /\ [][NextScan]_vars

(***************************************************************************)
(* scanSource, one call of rule.check at a time.  The loops of scanSource  *)
(* call rule.check(node, lang) for every comment node and every comment    *)
(* rule, then for every handler node and every structural rule.  A call    *)
(* returns, or it raises; scanSource has no try around it, so an exception *)
(* leaves scanSource at once and the diagnostics array is lost with it.    *)
(* cursor counts the calls made, allDiagnostics is the array so far.       *)
(***************************************************************************)
RECURSIVE PlanOfNodes(_, _)
\* for (const node of nodes) for (const rule of rules): the calls, in order
PlanOfNodes(nodes, rules) ==
    IF nodes = <<>>
    THEN <<>>
    ELSE [k \in 1..Len(rules) |-> [rule |-> rules[k], node |-> Head(nodes)]]
         \o PlanOfNodes(Tail(nodes), rules)

RECURSIVE PlanOfKinds(_, _, _)
\* for (const kind of kinds): the calls for the nodes root.findAll finds
PlanOfKinds(kinds, root, rules) ==
    IF kinds = <<>>
    THEN <<>>
    ELSE PlanOfNodes(FindAllKind(root, Head(kinds)), rules)
         \o PlanOfKinds(Tail(kinds), root, rules)

\* the calls of rule.check a scan makes when none raises
ScanPlan(root, lang) ==
    LET Both(rules) ==
            PlanOfKinds(lang.commentKinds, root, rules.comment)
            \o (IF Len(rules.ast) > 0
                THEN PlanOfKinds(AstRuleKinds(lang), root, rules.ast)
                ELSE <<>>)
    IN  Both(rulesForLanguage(lang))

\* the languages of the files scanned call by call
StepLanguageKeys == {"typescript", "python"}

InitStep ==
    /\ pc = "scanning"
    /\ args \in UNION {{<<key, FileOf(key, names)>> :
                            names \in SeqsUpTo(ItemNames(key), MaxItems)} :
                       key \in StepLanguageKeys}
    /\ files = <<>>
    /\ cursor = 0
    /\ allDiagnostics = <<>>
    /\ stdout = <<>>
    /\ exitCode = Running
    /\ uncaught = FALSE
    /\ lastIndex = NoRegExpUsed
    /\ calls = <<>>

StepLang == LANGUAGES[args[1]]

StepFilename == "test." \o StepLang.extensions[1]

\* rule.check(node, lang) returns: push the diagnostic of a match, go on
CheckReturns ==
    /\ pc = "scanning"
    /\ cursor < Len(ScanPlan(args[2], StepLang))
    /\ LET Next1(step) ==
               LET Push(match) ==
                       /\ allDiagnostics' =
                              IF match.ok
                              THEN Append(allDiagnostics,
                                          makeDiagnostic(step.rule, step.node, StepFilename))
                              ELSE allDiagnostics
                       /\ lastIndex' = match.li
               IN  Push(check(step.rule, step.node, StepLang, lastIndex))
       IN  Next1(ScanPlan(args[2], StepLang)[cursor + 1])
    /\ cursor' = cursor + 1
    /\ UNCHANGED <<pc, args, files, stdout, exitCode, uncaught, calls>>

\* rule.check(node, lang) raises: nothing in scanSource catches it
CheckRaises ==
    /\ pc = "scanning"
    /\ cursor < Len(ScanPlan(args[2], StepLang))
    /\ uncaught' = TRUE
    /\ pc' = "thrown"
    /\ UNCHANGED <<args, files, cursor, allDiagnostics, stdout, exitCode, lastIndex, calls>>

\* return diagnostics
ScanReturns ==
    /\ pc = "scanning"
    /\ cursor = Len(ScanPlan(args[2], StepLang))
    /\ calls' = Append(calls, [root |-> args[2], lang |-> StepLang,
                               filename |-> StepFilename,
                               diagnostics |-> allDiagnostics,
                               checked |-> {}])
    /\ pc' = "returned"
    /\ UNCHANGED <<args, files, cursor, allDiagnostics, stdout, exitCode, uncaught, lastIndex>>

NextStep == CheckReturns \/ CheckRaises \/ ScanReturns

SpecStep == InitStep /\ [][NextStep]_vars

(***************************************************************************)
(* What the properties below read of the history of scans.                 *)
(***************************************************************************)
Range(seq) == {seq[k] : k \in 1..Len(seq)}

CommentRuleIds == {r.id : r \in Range(commentRules)}
ErrorRuleIds == {r.id : r \in Range(errorHandlingRules)}

\* the comment nodes of the tree a call scanned
CommentNodesOf(call) == {n \in Range(Preorder(call.root)) : isComment(n, call.lang)}

\* the diagnostics of a call that point at a node and carry one of the rule ids
DiagnosticsAt(call, node, ids) ==
    SelectSeq(call.diagnostics,
              LAMBDA d : d.line = node.line + 1 /\ d.column = node.column + 1 /\ d.rule \in ids)

\* the reserved marker tokens, as the word-bounded, case-sensitive gate reads them
ReservedMarkers ==
    {"TODO", "FIXME", "HACK", "NOTE", "SAFETY", "WARN", "BUG", "XXX", "PERF", "IMPORTANT",
     "LICENSE", "COPYRIGHT"}

\* \bMARKER\b for some reserved marker: the text holds it as a whole word, in upper case
HasMarkerWord(text) ==
    \E m \in ReservedMarkers : \E p \in 0..(Len(text) - Len(m)) :
        /\ SubSeq(text, p + 1, p + Len(m)) = m
        /\ (p = 0 \/ Ch(text, p) \notin WordSet)
        /\ (p + Len(m) = Len(text) \/ Ch(text, p + Len(m) + 1) \notin WordSet)

\* the text matches the tool-directive pattern of the language
MatchesDirective(text, lang) == isToolDirective(text, lang, NoRegExpUsed).ok

\* the text matches the pattern of the comment rule
MatchesRule(rule, text) == SomeTest(PatternsOf(rule), text, NoRegExpUsed).ok

\* the text matches the pattern of some comment rule
MatchesClassifier(text) == \E r \in Range(commentRules) : MatchesRule(r, text)

(***************************************************************************)
(* Properties of scanSource, over the calls of SpecScan.                   *)
(***************************************************************************)
\* C1: a comment node whose text holds a reserved marker token or matches the
\* tool-directive pattern of the language gets no comment-rule diagnostic from
\* scanSource, whichever classifier patterns its text matches.
C1_SuppressionWins ==
    \A call \in Range(calls) : \A n \in CommentNodesOf(call) :
        (HasMarkerWord(commentText(n)) \/ MatchesDirective(commentText(n), call.lang))
            => DiagnosticsAt(call, n, CommentRuleIds) = <<>>

\* a scanned comment that matches a classifier pattern and a tool directive, holds no
\* marker, and got no diagnostic
C1_Witness ==
    \E call \in Range(calls) : \E n \in CommentNodesOf(call) :
        /\ MatchesClassifier(commentText(n))
        /\ MatchesDirective(commentText(n), call.lang)
        /\ ~HasMarkerWord(commentText(n))
        /\ DiagnosticsAt(call, n, CommentRuleIds) = <<>>

\* C2: the marker gate is case-sensitive and word-bounded: a comment that holds no
\* reserved marker as an upper-case whole word, matches a classifier pattern and
\* matches no tool directive is flagged.
C2_MarkerGateWordBounded ==
    \A call \in Range(calls) : \A n \in CommentNodesOf(call) :
        (/\ ~HasMarkerWord(commentText(n))
         /\ MatchesClassifier(commentText(n))
         /\ ~MatchesDirective(commentText(n), call.lang))
            => DiagnosticsAt(call, n, CommentRuleIds) # <<>>

C5_PassABeforePassB ==
    \A call \in Range(calls) : \A i, j \in 1..Len(call.diagnostics) :
        (call.diagnostics[i].rule \in ErrorRuleIds /\ call.diagnostics[j].rule \in CommentRuleIds)
            => j < i

\* a call that returned a comment diagnostic ahead of the diagnostic of a handler
\* that lies above the comment in the source
C5_Witness ==
    \E call \in Range(calls) : \E i, j \in 1..Len(call.diagnostics) :
        /\ i < j
        /\ call.diagnostics[i].rule \in CommentRuleIds
        /\ call.diagnostics[j].rule \in ErrorRuleIds
        /\ call.diagnostics[j].line < call.diagnostics[i].line

\* C6: the comment diagnostics of a call appear in ascending source order of their
\* nodes, for every language, Rust and Java with their two comment kinds included.
C6_PassAInSourceOrder ==
    \A call \in Range(calls) : \A i, j \in 1..Len(call.diagnostics) :
        (/\ i < j
         /\ call.diagnostics[i].rule \in CommentRuleIds
         /\ call.diagnostics[j].rule \in CommentRuleIds)
            => \/ call.diagnostics[i].line < call.diagnostics[j].line
               \/ /\ call.diagnostics[i].line = call.diagnostics[j].line
                  /\ call.diagnostics[i].column <= call.diagnostics[j].column

\* the variants of the error-handling rules that carry a rule id
VariantsOf(id) == {r \in Range(errorHandlingRules) : r.id = id}

\* C7: a variant of an error-handling rule is called, and a diagnostic carries its
\* id, only when the language of the scanned file is in the languages list of the
\* variant; above all log-in-error-handler never fires for Java or Python.
C7_LanguageIsolation ==
    \A call \in Range(calls) :
        /\ \A r \in Range(errorHandlingRules) :
               r.name \in call.checked => Includes(r.languages.list, call.lang.lang)
        /\ \A d \in Range(call.diagnostics) :
               d.rule \in ErrorRuleIds
                   => \E r \in VariantsOf(d.rule) :
                          r.name \in call.checked /\ Includes(r.languages.list, call.lang.lang)
        /\ call.lang.lang \in {"java", "python"}
               => \A d \in Range(call.diagnostics) : d.rule # consoleLogInCatchTS.id

\* a Java file with a catch clause that calls console.log: the Java variant was
\* called, the TypeScript variants were not, and nothing was reported
C7_Witness ==
    \E call \in Range(calls) :
        /\ call.lang.lang = "java"
        /\ \E n \in Range(Preorder(call.root)) : consoleLogInCatchCheck(n)
        /\ emptyCatchJava.name \in call.checked
        /\ consoleLogInCatchTS.name \notin call.checked
        /\ emptyCatchTS.name \notin call.checked
        /\ call.diagnostics = <<>>

\* the seven comment categories
SevenCategories ==
    {"obvious-comment", "narrator-comment", "step-comment", "section-divider",
     "placeholder-comment", "apologetic-comment", "ai-generated-comment"}

\* the rule id a file of one comment with the given body is flagged with
FlaggedAs(call, body, id) ==
    \A n \in CommentNodesOf(call) :
        commentText(n) \in {"// " \o body, "# " \o body}
            => DiagnosticsAt(call, n, {id}) # <<>>

\* C10: the comment rule set of every language holds all seven categories, so the
\* comments '... rest of the code', 'quick hack' and 'Add your code here' are
\* flagged as placeholder, apologetic and ai-generated comments.
C10_SevenCategories ==
    \A call \in Range(calls) :
        /\ SevenCategories \subseteq {r.id : r \in Range(rulesForLanguage(call.lang).comment)}
        /\ FlaggedAs(call, "... rest of the code", "placeholder-comment")
        /\ FlaggedAs(call, "quick hack", "apologetic-comment")
        /\ FlaggedAs(call, "Add your code here", "ai-generated-comment")

(***************************************************************************)
(* Properties of a run of the command line, over the behaviours of Spec.   *)
(***************************************************************************)
\* C4: two calls of scanSource with the same source, language and file name
\* return the same list of diagnostics, whatever was scanned between them.
C4_SameInputSameDiagnostics ==
    \A i, j \in 1..Len(calls) :
        (/\ calls[i].root = calls[j].root
         /\ calls[i].lang = calls[j].lang
         /\ calls[i].filename = calls[j].filename)
            => calls[i].diagnostics = calls[j].diagnostics

\* a file scanned twice with another file scanned in between, with diagnostics
C4_Witness ==
    \E i, j \in 1..Len(calls) :
        /\ i + 1 < j
        /\ calls[i].root = calls[j].root
        /\ calls[i].lang = calls[j].lang
        /\ calls[i].filename = calls[j].filename
        /\ calls[i + 1].filename # calls[i].filename
        /\ calls[j].diagnostics # <<>>

Scannable ==
    {k \in 1..Len(files) :
        /\ languageForExtension(SubSeq(extname(files[k]), 2, Len(extname(files[k])))) # Null
        /\ FileSystem[files[k]].readable}

\* C9: when one file fails, the run is not aborted: at its end every other
\* collected file was scanned and the diagnostics of those files are reported.
C9_FailureIsolation ==
    pc = "exited"
        => /\ \A k \in Scannable : \E c \in Range(calls) : c.filename = files[k]
           /\ Len(allDiagnostics) > 0 => stdout = formatDiagnostics(allDiagnostics)

(***************************************************************************)
(* Properties of the error-handling rules, over the calls of SpecScan.     *)
(***************************************************************************)
\* the nodes of a kind in the tree a call scanned
NodesOfKind(call, kind) == {n \in Range(Preorder(call.root)) : n.kind = kind}

\* C11: in a TypeScript, JavaScript or Java file, a catch_clause that has a body
\* gets an empty-error-handler diagnostic (exactly one) if and only if the body has
\* no named child; a body with a statement or with a comment is not reported.
C11_EmptyHandler ==
    \A call \in Range(calls) :
        call.lang.lang \in {"TypeScript", "JavaScript", "java"}
            => \A n \in NodesOfKind(call, "catch_clause") :
                   NodeField(n, "body") # Null
                       => Len(DiagnosticsAt(call, n, {"empty-error-handler"}))
                              = IF NamedChildren(NodeField(n, "body")) = <<>> THEN 1 ELSE 0

\* a scanned file with an empty catch clause that was reported and a catch clause
\* holding only a comment that was not
C11_Witness ==
    \E call \in Range(calls) : \E n, m \in NodesOfKind(call, "catch_clause") :
        /\ call.lang.lang \in {"TypeScript", "JavaScript", "java"}
        /\ NamedChildren(NodeField(n, "body")) = <<>>
        /\ Len(DiagnosticsAt(call, n, {"empty-error-handler"})) = 1
        /\ \E c \in Range(NamedChildren(NodeField(m, "body"))) : isComment(c, call.lang)
        /\ DiagnosticsAt(call, m, {"empty-error-handler"}) = <<>>

\* the expressions an except clause names between except and the colon
ExceptTypes(n) == SelectSeq(n.children, LAMBDA c : c.named /\ c.kind # "block")

\* C12: in a Python file, an except_clause gets an empty-error-handler diagnostic if
\* and only if it names no exception type and no binding, whatever its body holds;
\* a clause naming a type as a plain name, a dotted name, a tuple or 'X as e' gets none.
C12_BareExcept ==
    \A call \in Range(calls) :
        call.lang.lang = "python"
            => \A n \in NodesOfKind(call, "except_clause") :
                   Len(DiagnosticsAt(call, n, {"empty-error-handler"}))
                       = IF ExceptTypes(n) = <<>> THEN 1 ELSE 0

\* the named children of the block of an except clause
BlockStatements(n) ==
    NamedChildren(Head(SelectSeq(n.children, LAMBDA c : c.kind = "block")))

\* C13: in a Python file, an except_clause gets a silent-exception diagnostic
\* (exactly one) if and only if its block has exactly one named statement and that
\* statement is a pass statement.
C13_SilentException ==
    \A call \in Range(calls) :
        call.lang.lang = "python"
            => \A n \in NodesOfKind(call, "except_clause") :
                   Len(DiagnosticsAt(call, n, {"silent-exception"}))
                       = IF /\ Len(BlockStatements(n)) = 1
                            /\ BlockStatements(n)[1].kind = "pass_statement"
                         THEN 1
                         ELSE 0

\* a scanned Python file with a clause holding only pass that was reported and a
\* clause holding pass and another statement that was not
C13_Witness ==
    \E call \in Range(calls) : \E n, m \in NodesOfKind(call, "except_clause") :
        /\ call.lang.lang = "python"
        /\ Len(BlockStatements(n)) = 1
        /\ Len(DiagnosticsAt(call, n, {"silent-exception"})) = 1
        /\ Len(BlockStatements(m)) = 2
        /\ BlockStatements(m)[1].kind = "pass_statement"
        /\ DiagnosticsAt(call, m, {"silent-exception"}) = <<>>

\* a call console.log(...) is the node or one of its descendants
ContainsConsoleLog(n) ==
    \E d \in Range(Preorder(n)) :
        /\ d.kind = "call_expression"
        /\ StartsWith(d.text, "console.log(")

\* C14 as stated: in a TypeScript or JavaScript file, a catch_clause gets a
\* log-in-error-handler diagnostic if and only if its body contains a call
\* console.log(...).
C14_LogInBody ==
    \A call \in Range(calls) :
        call.lang.lang \in {"TypeScript", "JavaScript"}
            => \A n \in NodesOfKind(call, "catch_clause") :
                   Len(DiagnosticsAt(call, n, {"log-in-error-handler"}))
                       = IF ContainsConsoleLog(NodeField(n, "body")) THEN 1 ELSE 0

\* C14: in a TypeScript or JavaScript file, a catch_clause gets a
\* log-in-error-handler diagnostic (exactly one) if and only if the clause, its
\* parameter pattern or its body, contains a call console.log(...); a clause whose
\* only call is console.error(...) gets none.
C14_LogInClause ==
    \A call \in Range(calls) :
        call.lang.lang \in {"TypeScript", "JavaScript"}
            => \A n \in NodesOfKind(call, "catch_clause") :
                   Len(DiagnosticsAt(call, n, {"log-in-error-handler"}))
                       = IF ContainsConsoleLog(n) THEN 1 ELSE 0

\* a scanned file with a clause calling console.log in its body that was reported
\* and a clause calling only console.error that was not
C14_Witness ==
    \E call \in Range(calls) : \E n, m \in NodesOfKind(call, "catch_clause") :
        /\ call.lang.lang \in {"TypeScript", "JavaScript"}
        /\ ContainsConsoleLog(NodeField(n, "body"))
        /\ Len(DiagnosticsAt(call, n, {"log-in-error-handler"})) = 1
        /\ ~ContainsConsoleLog(m)
        /\ \E d \in Range(Preorder(m)) : StartsWith(d.text, "console.error(")
        /\ DiagnosticsAt(call, m, {"log-in-error-handler"}) = <<>>

\* the extensions of Ruby files
RubyExtensions == {".rb", ".rake"}

\* C15: Ruby is supported and empty-error-handler covers it: a collected file with a
\* Ruby extension that the loop has passed was resolved to a language config and
\* scanned, and its empty rescue clause got an empty-error-handler diagnostic.
C15_RubySupported ==
    \A k \in 1..Len(files) :
        (k <= cursor /\ extname(files[k]) \in RubyExtensions)
            => \E call \in Range(calls) :
                   /\ call.filename = files[k]
                   /\ \E d \in Range(call.diagnostics) : d.rule = "empty-error-handler"

\* the nodes the two passes of a call examine: comments and error handlers
ScannedNodes(call) ==
    {n \in Range(Preorder(call.root)) :
        isComment(n, call.lang) \/ n.kind \in Range(AstRuleKinds(call.lang))}

\* C16: the line and the column of every diagnostic are 1-indexed: they are the
\* zero-based start line and start column of an examined node plus 1, and both are
\* at least 1.
C16_OneIndexed ==
    \A call \in Range(calls) : \A d \in Range(call.diagnostics) :
        /\ d.line >= 1
        /\ d.column >= 1
        /\ \E n \in ScannedNodes(call) : d.line = n.line + 1 /\ d.column = n.column + 1

\* a scanned file with a diagnostic for a node at line 0, column 0 and a diagnostic
\* for a node further down and to the right
C16_Witness ==
    \E call \in Range(calls) : \E d, e \in Range(call.diagnostics) :
        /\ d.line = 1 /\ d.column = 1
        /\ \E n \in ScannedNodes(call) : n.line = 0 /\ n.column = 0
        /\ e.line > 1 /\ e.column > 1
        /\ \E n \in ScannedNodes(call) : n.line = e.line - 1 /\ n.column = e.column - 1

HasNewline(s) == \E k \in 1..Len(s) : SubSeq(s, k, k) = "\n"

\* text is the node text up to its first newline
IsFirstLineOf(text, whole) ==
    /\ ~HasNewline(text)
    /\ \/ whole = text
       \/ StartsWith(whole, text \o "\n")

\* C17: the text of every diagnostic is the first line of the text of the examined
\* node it points at: it holds no newline and equals the node text up to the first
\* newline, for comments and for error handlers that span lines.
C17_FirstLine ==
    \A call \in Range(calls) : \A d \in Range(call.diagnostics) :
        \E n \in ScannedNodes(call) :
            /\ d.line = n.line + 1 /\ d.column = n.column + 1
            /\ IsFirstLineOf(d.text, n.text)

\* a scan with a diagnostic for an error handler that spans lines, and a scan with
\* a diagnostic for a comment
C17_Witness ==
    \E call \in Range(calls) : \E d, e \in Range(call.diagnostics) :
        \E n, m \in ScannedNodes(call) :
            /\ isComment(n, call.lang)
            /\ d.line = n.line + 1 /\ d.column = n.column + 1
            /\ HasNewline(n.text)
            /\ IsFirstLineOf(d.text, n.text)
            /\ ~isComment(m, call.lang)
            /\ e.line = m.line + 1 /\ e.column = m.column + 1
            /\ HasNewline(m.text)
            /\ IsFirstLineOf(e.text, m.text)

\* the place of a file in the order of discovery: its first index in files
DiscoveryIndex(file) == CHOOSE k \in 1..Len(files) : files[k] = file /\ \A j \in 1..(k - 1) : files[j] # file

\* the diagnostics a report shows, top to bottom, each under the file heading above it
RECURSIVE ReportEntries(_, _)
ReportEntries(lines, file) ==
    IF lines = <<>>
    THEN <<>>
    ELSE LET l == Head(lines)
         IN  CASE l.kind = "file" -> ReportEntries(Tail(lines), l.file)
               [] l.kind = "warning" ->
                    <<[file |-> file, line |-> l.line, column |-> l.column, rule |-> l.rule]>>
                    \o ReportEntries(Tail(lines), file)
               [] OTHER -> ReportEntries(Tail(lines), file)

\* the same four fields of the accumulated diagnostics
RECURSIVE EntriesOf(_)
EntriesOf(diagnostics) ==
    IF diagnostics = <<>>
    THEN <<>>
    ELSE LET d == Head(diagnostics)
         IN  <<[file |-> d.file, line |-> d.line, column |-> d.column, rule |-> d.rule]>>
             \o EntriesOf(Tail(diagnostics))

\* entries of an earlier-discovered file come before those of a later-discovered one
GroupedInDiscoveryOrder(entries) ==
    \A i, j \in 1..Len(entries) :
        i < j => DiscoveryIndex(entries[i].file) <= DiscoveryIndex(entries[j].file)

\* C18: across a run, diagnostics are grouped by file in file-discovery order, and
\* within one file they keep the order scanSource returned, both in the accumulated
\* list and in the formatted report.
C18_GroupedByFile ==
    /\ GroupedInDiscoveryOrder(EntriesOf(allDiagnostics))
    /\ stdout # <<>> =>
          /\ GroupedInDiscoveryOrder(ReportEntries(stdout, ""))
          /\ \A f \in Range(files) :
                 SelectSeq(ReportEntries(stdout, ""), LAMBDA e : e.file = f)
                     = SelectSeq(EntriesOf(allDiagnostics), LAMBDA e : e.file = f)

\* the language config the extension of a collected file resolves to
LangOfFile(file) == languageForExtension(SubSeq(extname(file), 2, Len(extname(file))))

\* C19: a collected file whose extension resolves to no language config is skipped:
\* the step over it reads and parses nothing (no scanSource call, no read failure),
\* adds no diagnostic, raises no error, leaves the exit code alone and goes on to
\* the next file.
C19_UnsupportedSkipped ==
    [][(pc = "loop" /\ cursor < Len(files) /\ LangOfFile(files[cursor + 1]) = Null)
          => /\ cursor' = cursor + 1
             /\ pc' = "loop"
             /\ UNCHANGED <<files, allDiagnostics, calls, uncaught, exitCode, stdout>>]_vars

\* a run that passed an unreadable file of no supported language without scanning it
\* and scanned a later file
C19_Witness ==
    \E k \in 1..Len(files) :
        /\ k <= cursor
        /\ LangOfFile(files[k]) = Null
        /\ ~FileSystem[files[k]].readable
        /\ \A call \in Range(calls) : call.filename # files[k]
        /\ ~uncaught
        /\ \E call \in Range(calls) : \E j \in (k + 1)..Len(files) : call.filename = files[j]

\* the grammars the program can parse with: the two built into the parser and the
\* six it registers
RegisteredGrammars == {"TypeScript", "JavaScript", "python", "go", "rust", "c", "cpp", "java"}

\* the registry entries that list an extension
ConfigsFor(ext) == {k \in LanguageKeySet : Includes(LANGUAGES[k].extensions, ext)}

OnlyComment(call, text) ==
    /\ Len(call.root.children) = 1
    /\ isComment(call.root.children[1], call.lang)
    /\ call.root.children[1].text = text

\* the rule ids of the diagnostics of a call, in order
RuleIdsOf(call) == [k \in 1..Len(call.diagnostics) |-> call.diagnostics[k].rule]

\* the languages whose line comments open with //
SlashLanguages == {"TypeScript", "JavaScript", "go", "rust", "c", "cpp", "java"}

\* C21: in a language with // comments, a file whose only comment is
\* '// Initialize the counter' yields exactly one diagnostic, obvious-comment,
\* '// This function handles the request' exactly one, narrator-comment, and
\* '// Step 1: validate input' exactly one, step-comment; and no comment gets more
\* than one diagnostic of these three rules.
C21_CommentScenarios ==
    \A call \in Range(calls) :
        /\ call.lang.lang \in SlashLanguages =>
              /\ OnlyComment(call, "// Initialize the counter")
                     => RuleIdsOf(call) = <<"obvious-comment">>
              /\ OnlyComment(call, "// This function handles the request")
                     => RuleIdsOf(call) = <<"narrator-comment">>
              /\ OnlyComment(call, "// Step 1: validate input")
                     => RuleIdsOf(call) = <<"step-comment">>
        /\ \A n \in CommentNodesOf(call) :
               Len(DiagnosticsAt(call, n, {"obvious-comment", "narrator-comment",
                                           "step-comment"})) <= 1

\* a scan of the one comment '// Step 1: validate input' that reported step-comment
C21_Witness ==
    \E call \in Range(calls) :
        /\ call.lang.lang \in SlashLanguages
        /\ OnlyComment(call, "// Step 1: validate input")
        /\ RuleIdsOf(call) = <<"step-comment">>

\* C22: a check that raises is contained: no exception leaves the scan, and a scan
\* that has ended has called every rule on every node (cursor counts the calls).
C22_FailureContained ==
    /\ ~uncaught
    /\ pc \in {"returned", "thrown"} => cursor = Len(ScanPlan(args[2], StepLang))

\* what scanSource returns for the file of a call when the file is scanned alone,
\* by a fresh process
ScannedAlone(call) ==
    scanSource(call.root, call.lang, call.filename, NoRegExpUsed).diagnostics

\* the files of the run collected exactly once
CollectedOnce == {f \in Range(files) : Cardinality({k \in 1..Len(files) : files[k] = f}) = 1}

AllSpace(s) == \A k \in 1..Len(s) : Ch(s, k) \in SpaceSet

\* the text is a comment delimiter, whitespace and, for a block comment, the closing
\* delimiter
IsEmptyComment(text) ==
    \/ \E open \in {"//", "#"} :
           /\ StartsWith(text, open)
           /\ AllSpace(SubSeq(text, Len(open) + 1, Len(text)))
    \/ \E open \in {"/*", "/**"} :
           /\ StartsWith(text, open)
           /\ Len(text) >= Len(open) + 2
           /\ SubSeq(text, Len(text) - 1, Len(text)) = "*/"
           /\ AllSpace(SubSeq(text, Len(open) + 1, Len(text) - 2))

\* C24: a comment whose text is only the comment delimiter, optionally followed by
\* whitespace, matches no rule in any language: it gets no diagnostic.
C24_EmptyCommentsNeverMatch ==
    \A call \in Range(calls) : \A n \in CommentNodesOf(call) :
        IsEmptyComment(n.text)
            => DiagnosticsAt(call, n, CommentRuleIds \cup ErrorRuleIds) = <<>>

\* a scan of a file whose one comment is a delimiter and whitespace, all four comment
\* rules checked, nothing reported
C24_Witness ==
    \E call \in Range(calls) : \E n \in CommentNodesOf(call) :
        /\ IsEmptyComment(n.text)
        /\ Len(n.text) > 2
        /\ {"obviousComment", "narratorComment", "stepComment", "sectionDivider"}
               \subseteq call.checked
        /\ call.diagnostics = <<>>

\* the rules of a list that can run for a language
ApplicableTo(rules, langId) ==
    SelectSeq(rules, LAMBDA r : ~r.languages.defined \/ Includes(r.languages.list, langId))

\* no two rules of the sequence carry the same id
DistinctIds(rules) ==
    \A i, j \in 1..Len(rules) : i # j => rules[i].id # rules[j].id

\* C25: at most one diagnostic per rule id per node: no two comment rules share an
\* id, no two structural rules that share an id are applicable to the same language,
\* and no scan emits two diagnostics with the same rule id at the same node.
C25_OnePerRuleIdPerNode ==
    /\ DistinctIds(commentRules)
    /\ \A k \in LanguageKeySet : DistinctIds(ApplicableTo(errorHandlingRules, LANGUAGES[k].lang))
    /\ \A call \in Range(calls) :
           /\ DistinctIds(rulesForLanguage(call.lang).ast)
           /\ \A n \in ScannedNodes(call) : \A id \in CommentRuleIds \cup ErrorRuleIds :
                  Len(DiagnosticsAt(call, n, {id})) <= 1

\* a scan of a TypeScript or Java file with an empty catch clause: the table holds
\* two empty-error-handler variants for catch clauses, one ran, one diagnostic
C25_Witness ==
    \E call \in Range(calls) : \E n \in NodesOfKind(call, "catch_clause") :
        /\ {"emptyCatchTS", "emptyCatchJava"} \cap call.checked # {}
        /\ ~({"emptyCatchTS", "emptyCatchJava"} \subseteq call.checked)
        /\ Len(DiagnosticsAt(call, n, {"empty-error-handler"})) = 1

\* the rule ids of the diagnostics a call gave a node, in order
RuleIdsAt(call, n) ==
    LET At(ds) == [k \in 1..Len(ds) |-> ds[k].rule]
    IN  At(DiagnosticsAt(call, n, CommentRuleIds \cup ErrorRuleIds))

\* C26: in a Python file, an except clause whose body is only pass yields
\* empty-error-handler and then silent-exception when it names no type, and
\* silent-exception alone when it names one.
C26_PythonOverlap ==
    \A call \in Range(calls) :
        call.lang.lang = "python"
            => \A n \in NodesOfKind(call, "except_clause") :
                   (/\ Len(BlockStatements(n)) = 1
                    /\ BlockStatements(n)[1].kind = "pass_statement")
                       => RuleIdsAt(call, n)
                              = IF ExceptTypes(n) = <<>>
                                THEN <<"empty-error-handler", "silent-exception">>
                                ELSE <<"silent-exception">>

\* C27: the table of structural node kinds and the structural rules agree: for
\* every language key of AST_RULE_KINDS and every kind listed for it, some structural
\* rule applicable to the language tests that kind; and for every language a
\* structural rule names, AST_RULE_KINDS has an entry that holds the kind the rule
\* tests.  The tables are those every run of the program starts with.
C27_TableAndRulesAgree ==
    /\ pc \in {"start", "loop", "exited"}
    /\ \A langId \in DOMAIN AST_RULE_KINDS : \A kind \in Range(AST_RULE_KINDS[langId]) :
           \E r \in Range(ApplicableTo(errorHandlingRules, langId)) : TestedKind(r) = kind
    /\ \A r \in Range(errorHandlingRules) :
           r.languages.defined =>
               \A langId \in Range(r.languages.list) :
                   /\ langId \in DOMAIN AST_RULE_KINDS
                   /\ Includes(AST_RULE_KINDS[langId], TestedKind(r))

\* the languages without structural rules
CommentOnlyLanguages == {"go", "rust", "c", "cpp"}

ErrorRuleNames == {r.name : r \in Range(errorHandlingRules)}

\* C28: for Go, Rust, C and C++ no structural pass runs: no structural rule is
\* checked and every diagnostic carries the id of a comment rule, whatever error
\* handlers the source holds.
C28_NoStructuralPass ==
    \A call \in Range(calls) :
        call.lang.lang \in CommentOnlyLanguages
            => /\ call.checked \cap ErrorRuleNames = {}
               /\ \A d \in Range(call.diagnostics) : d.rule \in CommentRuleIds

\* a scan of a C++ file with an empty catch clause and an obvious comment: the
\* comment was reported, the clause was not
C28_Witness ==
    \E call \in Range(calls) : \E n \in NodesOfKind(call, "catch_clause") :
        /\ call.lang.lang = "cpp"
        /\ NamedChildren(NodeField(n, "body")) = <<>>
        /\ RuleIdsOf(call) = <<"obvious-comment">>

\* the rule ids scanSource reports for a file holding the one comment
RuleIdsFor(key, text) ==
    LET Ids(ds) == {ds[k].rule : k \in 1..Len(ds)}
    IN  Ids(scanSource(OneCommentFile(key, text), LANGUAGES[key],
                       "test." \o LANGUAGES[key].extensions[1], NoRegExpUsed).diagnostics)

\* the file of the call holds one block comment and nothing else
OnlyBlockComment(call) ==
    /\ Len(call.root.children) = 1
    /\ isComment(call.root.children[1], call.lang)
    /\ StartsWith(call.root.children[1].text, "/* ")
    /\ Len(call.root.children[1].text) >= 6

\* the body of the block comment /* body */
BlockBody(text) == SubSeq(text, 4, Len(text) - 3)

\* C29: every comment rule accepts the same comment delimiters: a comment body that
\* is flagged when written after // is flagged with the same rule ids when written
\* as a block comment /* ... */ (a banner such as /* ==== */ is a section-divider).
C29_SameDelimiters ==
    \A key \in LanguageKeySet \ {"python"} : \A call \in Range(calls) :
        (call.lang = LANGUAGES[key] /\ OnlyBlockComment(call))
            => RuleIdsFor(key, "// " \o BlockBody(call.root.children[1].text))
                   \subseteq {d.rule : d \in Range(call.diagnostics)}

\* C30: each file is scanned at most once per run: whatever the path arguments, the
\* collected list holds no file twice, no file is scanned twice, and the report
\* counts each finding of each file once.
C30_ScannedOnce ==
    /\ \A i, j \in 1..Len(files) : i # j => files[i] # files[j]
    /\ \A i, j \in 1..Len(calls) : i # j => calls[i].filename # calls[j].filename
    /\ \A call \in Range(calls) :
           Len(SelectSeq(allDiagnostics, LAMBDA d : d.file = call.filename))
               <= Len(call.diagnostics)

====
